---- MODULE Spec2Model ----
(***************************************************************************)
(* Memoria agent-state backend: the workflow run state machine, the        *)
(* /workflow/execute scenarios, and the cursor-based workflow_events log,  *)
(* as laid out in the Agent State DB design and the API documentation.     *)
(*                                                                         *)
(* A POST /workflow/execute with a workflow_id first runs                  *)
(* determine_scenario (plain reads, no row lock) and afterwards performs   *)
(* the writes of the scenario it selected as one unit of work.  Other      *)
(* requests and the pipeline may commit between the two.                   *)
(***************************************************************************)
EXTENDS Integers, Sequences, FiniteSets, TLC

\* ---- bounds of the model ----
\* Spec: every operation, one request handler at a time
MaxWorkflows == 2
MaxRuns == 2
MaxRequests == 1
MaxClarifications == 1
\* RaceSpec: concurrent request handlers over the pipeline's success path
RaceWorkflows == 1
RaceRuns == 3
RaceRequests == 2
\* StreamSpec: WebSocket subscribers of one conversation
MaxSubscribers == 2
StreamRuns == 2
\* ResumeSpec: concurrent request handlers answering one paused run
ResumeRuns == 1
\* AnswerSpec: the turns of one conversation and the answers reported for them
AnswerRuns == 2
\* WaitlistSpec: concurrent POST /api/waitlist handlers
WaitlistRequests == 2
\* PageSpec: handleQuery calls of the demo page, and mounts of the page
MaxCalls == 2
MaxMounts == 2
\* ms of the clock between two looks at the page
Tick == 100

\* ---- values ----
NULL == 0
NoText == "null"
Inputs == {"u1"}
Questions == {"q1"}
Memories == {"mem1"}
ErrorDetails == {"RETRIEVAL_ERROR"}
Responses == {"a1", "a2"}
Reasonings == {NoText, "r1"}
ToolCalls == {"t1"}
\* the text of the query box: the preset question, nothing, a blank
Queries == {<<"q">>, <<>>, <<" ">>}
DefaultQuery == <<"q">>

RunStatus == {"running", "waiting_for_input", "completed", "failed", "cancelled"}
ActiveStatus == {"running", "waiting_for_input"}
TerminalStatus == {"completed", "failed", "cancelled"}

VARIABLES
    workflows,           \* table workflows: row w is conversation w
    workflow_runs,       \* table workflow_runs: row r is run r
    conversation_turns,  \* table conversation_turns (set of rows)
    workflow_events,     \* table workflow_events (set of rows)
    next_event_id,       \* the auto-increment sequence behind workflow_events.id
    requests,            \* in-flight POST /workflow/execute handlers
    orchestrator,        \* pipeline position of the driver of each run
    op_result,           \* outcome of the last run state machine operation
    query_result,        \* rows the last cursor query returned to a WebSocket client
    subscribers,         \* WebSocket connections on /workflow/ws/{workflow_id}
    answer_response,     \* response of the last POST /workflow/ai-answer
    waitlist,            \* table waitlist of the site's D1 database, in id order
    posts,               \* in-flight POST /api/waitlist handlers
    location,            \* route the browser shows
    query,               \* state of the mounted Memories component
    isLoading,
    reasoningSteps,
    timers,              \* pending setTimeout callbacks, in creation order
    instance,            \* how many times the Memories component was mounted
    calls                \* how many handleQuery calls have scheduled timers

vars == <<workflows, workflow_runs, conversation_turns, workflow_events,
          next_event_id, requests, orchestrator, op_result, query_result,
          subscribers, answer_response, waitlist, posts, location, query,
          isLoading, reasoningSteps, timers, instance, calls>>

\* the waitlist site, which shares nothing with the backend
site == <<waitlist, posts>>

\* what the clients of the stream and of /workflow/ai-answer hold, and the site
\* the demo page in the browser
page == <<location, query, isLoading, reasoningSteps, timers, instance, calls>>

clients == <<query_result, subscribers, answer_response, site, page>>

RunIds == DOMAIN workflow_runs
\* every handler slot of either specification
AllRequestIds == 1..(MaxRequests + RaceRequests)

\* ---- rows ----
EmptyState ==
    [pending_question |-> NoText, clarifications |-> <<>>,
     subqueries |-> NoText, reasoningbank_hits |-> NoText]

\* a run row that takes the message id of the conversation's first message
NewRunFirstMessageId(workflow_id, message_id, user_input, ask_clarifications) ==
    [workflow_id |-> workflow_id, message_id |-> 1,
     status |-> "running", user_input |-> user_input,
     ask_clarifications |-> ask_clarifications, state |-> EmptyState,
     final_output |-> NoText, error |-> NoText]

NewRun(workflow_id, message_id, user_input, ask_clarifications) ==
    [workflow_id |-> workflow_id, message_id |-> message_id,
     status |-> "running", user_input |-> user_input,
     ask_clarifications |-> ask_clarifications, state |-> EmptyState,
     final_output |-> NoText, error |-> NoText]

NewEvent(id, workflow_id, run_id, type, data, is_final, is_error) ==
    [id |-> id, workflow_id |-> workflow_id, run_id |-> run_id,
     type |-> type, data |-> data, is_final |-> is_final, is_error |-> is_error]

NewTurn(r) ==
    LET run == workflow_runs[r] IN
    [message_id |-> run.message_id, workflow_id |-> run.workflow_id, run_id |-> r,
     user_input |-> run.user_input,
     clarification_history |-> run.state.clarifications,
     subqueries |-> run.state.subqueries,
     reasoningbank_hits |-> run.state.reasoningbank_hits,
     retrieved_memories |-> NoText,
     ai_answer |-> NoText, ai_reasoning |-> NoText, ai_tool_calls |-> NoText]

\* a WebSocket slot nobody has connected on
NoSubscriber ==
    [status |-> "none", workflow_id |-> NULL, attached_final_only |-> FALSE,
     final_only |-> FALSE, start |-> <<>>, cursor |-> <<>>, delivered |-> <<>>]

NoResponse ==
    [status |-> NULL, success |-> FALSE, message |-> NoText,
     alreadyExists |-> FALSE, error |-> NoText]

NoBody == [json |-> "none", type |-> "undefined", chars |-> <<>>]

NoPost ==
    [pc |-> "idle", body |-> NoBody, normalizedEmail |-> <<>>,
     existing |-> "unread", response |-> NoResponse]

IdleRequest ==
    [pc |-> "idle", workflow_id |-> NULL, scenario |-> NoText,
     current_run |-> NULL, code |-> 0]

\* ---- the event log ----
\* an insert that leaves the sequence where it was
appendWithoutSequence(workflow_id, run_id, type, data, is_final, is_error) ==
    /\ workflow_events' = workflow_events \cup
          {NewEvent(next_event_id, workflow_id, run_id, type, data, is_final, is_error)}
    /\ next_event_id' = next_event_id

\* INSERT INTO workflow_events: id comes from the auto-increment sequence
append(workflow_id, run_id, type, data, is_final, is_error) ==
    /\ workflow_events' = workflow_events \cup
          {NewEvent(next_event_id, workflow_id, run_id, type, data, is_final, is_error)}
    /\ next_event_id' = next_event_id + 1

\* ---- classification ----
\* classification that never raises NotFoundError
determine_scenario_no_lookup_check(workflow_id) ==
    LET current_run_id == IF workflow_id \in DOMAIN workflows
                          THEN workflows[workflow_id].current_run_id
                          ELSE NULL
    IN IF current_run_id # NULL
             /\ workflow_runs[current_run_id].status = "waiting_for_input"
       THEN [kind |-> "clarification", current_run |-> current_run_id]
       ELSE IF current_run_id # NULL
                  /\ workflow_runs[current_run_id].status = "running"
       THEN [kind |-> "ConflictError", current_run |-> NULL]
       ELSE [kind |-> "new_turn", current_run |-> NULL]

\* classification that never raises ConflictError
determine_scenario_no_busy_check(workflow_id) ==
    IF workflow_id \notin DOMAIN workflows
    THEN [kind |-> "NotFoundError", current_run |-> NULL]
    ELSE LET current_run_id == workflows[workflow_id].current_run_id IN
         IF current_run_id # NULL
               /\ workflow_runs[current_run_id].status = "waiting_for_input"
         THEN [kind |-> "clarification", current_run |-> current_run_id]
         ELSE [kind |-> "new_turn", current_run |-> NULL]

determine_scenario(workflow_id) ==
    IF workflow_id \notin DOMAIN workflows
    THEN [kind |-> "NotFoundError", current_run |-> NULL]
    ELSE LET current_run_id == workflows[workflow_id].current_run_id IN
         IF current_run_id # NULL
               /\ workflow_runs[current_run_id].status = "waiting_for_input"
         THEN [kind |-> "clarification", current_run |-> current_run_id]
         ELSE IF current_run_id # NULL
                    /\ workflow_runs[current_run_id].status = "running"
         THEN [kind |-> "ConflictError", current_run |-> NULL]
         ELSE [kind |-> "new_turn", current_run |-> NULL]

Init ==
    /\ workflows = <<>>
    /\ workflow_runs = <<>>
    /\ conversation_turns = {}
    /\ workflow_events = {}
    /\ next_event_id = 1
    /\ requests = [q \in AllRequestIds |-> IdleRequest]
    /\ orchestrator = <<>>
    /\ op_result = NoText
    /\ query_result = [workflow_id |-> NULL, cursor |-> <<>>, rows |-> <<>>]
    /\ subscribers = [s \in 1..MaxSubscribers |-> NoSubscriber]
    /\ answer_response = [message_id |-> NULL, status |-> NoText]
    /\ waitlist = <<>>
    /\ posts = [q \in 1..WaitlistRequests |-> NoPost]
    /\ location = "query"
    /\ query = DefaultQuery
    /\ isLoading = FALSE
    /\ reasoningSteps = <<>>
    /\ timers = <<>>
    /\ instance = 1
    /\ calls = 0

\* ---- POST /api/waitlist ----
\* strings are sequences of characters
WhiteSpace == {" "}

LowerCase(c) == CASE c = "A" -> "a" [] c = "B" -> "b" [] OTHER -> c

toLowerCase(chars) == [i \in DOMAIN chars |-> LowerCase(chars[i])]

RECURSIVE trimStart(_)

trimStart(chars) ==
    IF chars # <<>> /\ Head(chars) \in WhiteSpace
    THEN trimStart(Tail(chars)) ELSE chars

RECURSIVE trimEnd(_)

trimEnd(chars) ==
    IF chars # <<>> /\ chars[Len(chars)] \in WhiteSpace
    THEN trimEnd(SubSeq(chars, 1, Len(chars) - 1)) ELSE chars

trim(chars) == trimEnd(trimStart(chars))

\* [^\s@]+
NoSpaceNoAt(chars) ==
    /\ chars # <<>>
    /\ \A i \in DOMAIN chars : chars[i] \notin WhiteSpace \cup {"@"}

\* the pattern without its anchors: /[^\s@]+@[^\s@]+\.[^\s@]+/.test(chars)
emailRegexSearch(chars) ==
    \E i, j \in DOMAIN chars :
        /\ 1 < i /\ i + 1 < j /\ j < Len(chars)
        /\ chars[i] = "@"
        /\ chars[j] = "."
        /\ chars[i - 1] \notin WhiteSpace \cup {"@"}
        /\ NoSpaceNoAt(SubSeq(chars, i + 1, j - 1))
        /\ chars[j + 1] \notin WhiteSpace \cup {"@"}

\* /^[^\s@]+@[^\s@]+\.[^\s@]+$/.test(chars)
emailRegexTest(chars) ==
    \E i, j \in DOMAIN chars :
        /\ i < j
        /\ chars[i] = "@"
        /\ chars[j] = "."
        /\ NoSpaceNoAt(SubSeq(chars, 1, i - 1))
        /\ NoSpaceNoAt(SubSeq(chars, i + 1, j - 1))
        /\ NoSpaceNoAt(SubSeq(chars, j + 1, Len(chars)))

\* the address as the client sent it
rawEmail(chars) == chars

\* email.toLowerCase().trim()
normalizedEmail(chars) == trim(toLowerCase(chars))

\* the strings clients send as email
EmailSamples ==
    {<<>>,
     <<" ">>,
     <<"a", "b">>,
     <<"a", "@", "b">>,
     <<"a", "@", "@", "b", ".", "a">>,
     <<" ", "a", "@", "b", ".", "a">>,
     <<"a", "@", "b", ".", "a", " ">>,
     <<"a", "@", "b", ".", "a">>,
     <<"A", "@", "b", ".", "a">>,
     <<"a", "@", "B", ".", "A">>,
     <<"b", "@", "b", ".", "a">>}

\* request bodies: not JSON at all, the JSON value null, or an object whose
\* email is absent, null, a number or a string
Bodies ==
    {[json |-> j, type |-> "undefined", chars |-> <<>>] : j \in {"malformed", "null"}}
    \cup {[json |-> "object", type |-> t, chars |-> <<>>] :
             t \in {"undefined", "null", "number"}}
    \cup {[json |-> "object", type |-> "string", chars |-> c] : c \in EmailSamples}

\* !email
Falsy(body) ==
    \/ body.type \in {"undefined", "null"}
    \/ body.type = "string" /\ body.chars = <<>>

ErrorResponse(status, error) ==
    [status |-> status, success |-> FALSE, message |-> NoText,
     alreadyExists |-> FALSE, error |-> error]

SuccessResponse(message, alreadyExists) ==
    [status |-> 200, success |-> TRUE, message |-> message,
     alreadyExists |-> alreadyExists, error |-> NoText]

PostResponds(q, response) ==
    posts' = [posts EXCEPT ![q].pc = "done", ![q].response = response]

\* SELECT id FROM waitlist WHERE email = ?
existing(email) == \E i \in DOMAIN waitlist : waitlist[i].email = email

\* a column that takes the same address twice
NoConstraint(email) == TRUE

\* email TEXT UNIQUE NOT NULL
UniqueEmail(email) == \A i \in DOMAIN waitlist : waitlist[i].email # email

\* onRequestPost up to its first query: request.json(), the destructuring of
\* the body, the two validations and the normalization
PostValidate(q, body) ==
    /\ posts[q].pc = "idle"
    /\ IF body.json \in {"malformed", "null"}
       THEN posts' = [posts EXCEPT ![q] =
                [NoPost EXCEPT !.pc = "done", !.body = body,
                    !.response = ErrorResponse(500, "Failed to process request")]]
       ELSE IF Falsy(body) \/ body.type # "string"
       THEN posts' = [posts EXCEPT ![q] =
                [NoPost EXCEPT !.pc = "done", !.body = body,
                    !.response = ErrorResponse(400, "Email is required")]]
       ELSE IF ~emailRegexTest(body.chars)
       THEN posts' = [posts EXCEPT ![q] =
                [NoPost EXCEPT !.pc = "done", !.body = body,
                    !.response = ErrorResponse(400, "Invalid email format")]]
       ELSE posts' = [posts EXCEPT ![q] =
                [NoPost EXCEPT !.pc = "select", !.body = body,
                    !.normalizedEmail = normalizedEmail(body.chars)]]
    /\ UNCHANGED waitlist

\* the SELECT and the answer to an address that is found
PostSelect(q) ==
    /\ posts[q].pc = "select"
    /\ IF existing(posts[q].normalizedEmail)
       THEN posts' = [posts EXCEPT ![q].pc = "done", ![q].existing = "found",
                ![q].response = SuccessResponse("You're already on the waitlist!", TRUE)]
       ELSE posts' = [posts EXCEPT ![q].pc = "insert", ![q].existing = "absent"]
    /\ UNCHANGED waitlist

\* the INSERT and the answer; a constraint violation is thrown and caught
PostInsert(q, timestamp) ==
    /\ posts[q].pc = "insert"
    /\ IF UniqueEmail(posts[q].normalizedEmail)
       THEN /\ waitlist' = Append(waitlist,
                   [id |-> Len(waitlist) + 1, email |-> posts[q].normalizedEmail,
                    created_at |-> timestamp])
            /\ PostResponds(q, SuccessResponse("Successfully added to waitlist!", FALSE))
       ELSE /\ PostResponds(q, ErrorResponse(500, "Failed to process request"))
            /\ UNCHANGED waitlist

\* a statement that D1 could not run (no binding, no table, the database
\* unreachable) throws into the same catch block
PostThrows(q) ==
    /\ posts[q].pc \in {"select", "insert"}
    /\ PostResponds(q, ErrorResponse(500, "Failed to process request"))
    /\ UNCHANGED waitlist

\* the response is sent and the handler is gone
PostReturn(q) ==
    /\ posts[q].pc = "done"
    /\ posts' = [posts EXCEPT ![q] = NoPost]
    /\ UNCHANGED waitlist

\* ---- POST /workflow/execute ----
\* user_input and ask_clarifications of a request are first used by the write
\* that stores them, so they are drawn there
Idle(q) == requests[q].pc = "idle"

Respond(q, workflow_id, scenario, code) ==
    requests' = [requests EXCEPT ![q] =
        [IdleRequest EXCEPT !.pc = "done", !.workflow_id = workflow_id,
            !.scenario = scenario, !.code = code]]

\* Scenario 1, steps 1-3: no workflow_id in the request
ExecuteNewConversation(q, user_input, ask_clarifications, max_workflows, max_runs) ==
    /\ Idle(q)
    /\ Len(workflows) < max_workflows
    /\ Len(workflow_runs) < max_runs
    /\ LET workflow_id == Len(workflows) + 1
           run_id == Len(workflow_runs) + 1
       IN /\ workflows' = Append(workflows, [current_run_id |-> run_id])
          /\ workflow_runs' = Append(workflow_runs,
                 NewRun(workflow_id, run_id, user_input, ask_clarifications))
          /\ orchestrator' = Append(orchestrator, "subquery")
          /\ Respond(q, workflow_id, "new_conversation", 201)
    /\ UNCHANGED <<conversation_turns, workflow_events, next_event_id, op_result>>

\* the request carries a workflow_id: determine_scenario reads the tables
ExecuteClassify(q, workflow_id) ==
    /\ Idle(q)
    /\ LET scenario == determine_scenario(workflow_id)
       IN IF scenario.kind = "NotFoundError"
          THEN Respond(q, workflow_id, scenario.kind, 404)
          ELSE IF scenario.kind = "ConflictError"
          THEN Respond(q, workflow_id, scenario.kind, 409)
          ELSE requests' = [requests EXCEPT ![q] =
                   [IdleRequest EXCEPT !.pc = "classified",
                       !.workflow_id = workflow_id, !.scenario = scenario.kind,
                       !.current_run = scenario.current_run]]
    /\ UNCHANGED <<workflows, workflow_runs, conversation_turns, workflow_events,
                   next_event_id, orchestrator, op_result>>

\* Scenario 2, step 3: resume the run determine_scenario returned
ExecuteClarification(q, user_input) ==
    /\ requests[q].pc = "classified"
    /\ requests[q].scenario = "clarification"
    /\ LET r == requests[q].current_run
           run == workflow_runs[r]
           pair == [question |-> run.state.pending_question, answer |-> user_input]
       IN /\ workflow_runs' = [workflow_runs EXCEPT ![r] =
                 [run EXCEPT !.status = "running",
                     !.state.clarifications = Append(run.state.clarifications, pair)]]
          /\ orchestrator' = [orchestrator EXCEPT ![r] = "subquery"]
          /\ Respond(q, requests[q].workflow_id, "clarification", 200)
    /\ UNCHANGED <<workflows, conversation_turns, workflow_events, next_event_id,
                   op_result>>

\* Scenario 5, steps 3-4: a new run under the existing conversation
ExecuteNewTurn(q, user_input, ask_clarifications, max_runs) ==
    /\ requests[q].pc = "classified"
    /\ requests[q].scenario = "new_turn"
    /\ Len(workflow_runs) < max_runs
    /\ LET workflow_id == requests[q].workflow_id
           run_id == Len(workflow_runs) + 1
       IN /\ workflow_runs' = Append(workflow_runs,
                 NewRun(workflow_id, run_id, user_input, ask_clarifications))
          /\ workflows' = [workflows EXCEPT ![workflow_id].current_run_id = run_id]
          /\ orchestrator' = Append(orchestrator, "subquery")
          /\ Respond(q, workflow_id, "new_turn", 200)
    /\ UNCHANGED <<conversation_turns, workflow_events, next_event_id, op_result>>

\* the client has read the response
ExecuteReturn(q) ==
    /\ requests[q].pc = "done"
    /\ requests' = [requests EXCEPT ![q] = IdleRequest]
    /\ UNCHANGED <<workflows, workflow_runs, conversation_turns, workflow_events,
                   next_event_id, orchestrator, op_result>>

\* ---- run state machine ----
CanPause(r) == workflow_runs[r].status = "running"
CanCheckpoint(r) == workflow_runs[r].status = "running"
CanComplete(r) == workflow_runs[r].status = "running"
CanFail(r) == workflow_runs[r].status \in ActiveStatus
CanCancel(r) == workflow_runs[r].status \in ActiveStatus

\* the operation was refused: nothing is written
InvalidState(r) ==
    /\ op_result' = "InvalidState"
    /\ UNCHANGED <<workflows, workflow_runs, conversation_turns, workflow_events,
                   next_event_id>>

\* a run that ends and leaves the conversation pointing at it
KeepCurrentRun(workflow_id) == UNCHANGED workflows

\* Scenario 3, step 5
ClearCurrentRun(workflow_id) ==
    workflows' = [workflows EXCEPT ![workflow_id].current_run_id = NULL]

\* Scenario 1, step 5
pause(r, question) ==
    IF CanPause(r)
    THEN /\ workflow_runs' = [workflow_runs EXCEPT ![r].status = "waiting_for_input",
                                 ![r].state.pending_question = question]
         /\ orchestrator' = [orchestrator EXCEPT ![r] = "suspended"]
         /\ op_result' = "ok"
         /\ UNCHANGED <<workflows, conversation_turns, workflow_events, next_event_id>>
    ELSE /\ InvalidState(r)
         /\ orchestrator' = [orchestrator EXCEPT ![r] = "stopped"]

\* Scenario 2, steps 5-6 and 8-9: save an intermediate result, stream progress
checkpoint(r, field, value, next_stage) ==
    IF CanCheckpoint(r)
    THEN /\ workflow_runs' = [workflow_runs EXCEPT ![r].state[field] = value]
         /\ append(workflow_runs[r].workflow_id, r, "progress", NoText, FALSE, FALSE)
         /\ orchestrator' = [orchestrator EXCEPT ![r] = next_stage]
         /\ op_result' = "ok"
         /\ UNCHANGED <<workflows, conversation_turns>>
    ELSE /\ InvalidState(r)
         /\ orchestrator' = [orchestrator EXCEPT ![r] = "stopped"]

\* a conversation_turns table without the key and the unique constraint
TurnInsertableUnconstrained(r) == TRUE

\* conversation_turns.message_id is the primary key, run_id is unique
TurnInsertable(r) ==
    \A t \in conversation_turns :
        t.message_id # workflow_runs[r].message_id /\ t.run_id # r

\* the memories sent as one more event of the stream, not marked final
emitUnmarked(r, memories) ==
    append(workflow_runs[r].workflow_id, r, "memories", memories, FALSE, FALSE)

\* Scenario 3, step 4: payload {type: "memories", data}, is_final = true
emitFinal(r, memories) ==
    append(workflow_runs[r].workflow_id, r, "memories", memories, TRUE, FALSE)

\* Scenario 3, steps 2-5
complete(r, memories) ==
    IF ~CanComplete(r)
    THEN /\ InvalidState(r)
         /\ orchestrator' = [orchestrator EXCEPT ![r] = "stopped"]
    ELSE IF ~TurnInsertable(r)
    THEN /\ op_result' = "IntegrityError"
         /\ orchestrator' = [orchestrator EXCEPT ![r] = "stopped"]
         /\ UNCHANGED <<workflows, workflow_runs, conversation_turns, workflow_events,
                        next_event_id>>
    ELSE /\ workflow_runs' = [workflow_runs EXCEPT ![r].status = "completed",
                                 ![r].final_output = memories]
         /\ conversation_turns' = conversation_turns \cup
                {[NewTurn(r) EXCEPT !.retrieved_memories = memories]}
         /\ emitFinal(r, memories)
         /\ ClearCurrentRun(workflow_runs[r].workflow_id)
         /\ orchestrator' = [orchestrator EXCEPT ![r] = "stopped"]
         /\ op_result' = "ok"

fail(r, error) ==
    IF CanFail(r)
    THEN /\ workflow_runs' = [workflow_runs EXCEPT ![r].status = "failed",
                                 ![r].error = error]
         /\ append(workflow_runs[r].workflow_id, r, "error", error, FALSE, TRUE)
         /\ ClearCurrentRun(workflow_runs[r].workflow_id)
         /\ orchestrator' = [orchestrator EXCEPT ![r] = "stopped"]
         /\ op_result' = "ok"
         /\ UNCHANGED conversation_turns
    ELSE /\ InvalidState(r)
         /\ orchestrator' = [orchestrator EXCEPT ![r] = "stopped"]

cancel(r) ==
    IF CanCancel(r)
    THEN /\ workflow_runs' = [workflow_runs EXCEPT ![r].status = "cancelled"]
         /\ ClearCurrentRun(workflow_runs[r].workflow_id)
         /\ op_result' = "ok"
         /\ UNCHANGED <<conversation_turns, workflow_events, next_event_id,
                        orchestrator>>
    ELSE /\ InvalidState(r)
         /\ UNCHANGED orchestrator

\* ---- the pipeline driving a run ----
Driving(r) == orchestrator[r] \in {"subquery", "reasoningbank", "memory"}

\* a SubqueryGenerator that asks whatever the run allows
SubqueryGeneratorAsksAlways(r, question) ==
    /\ orchestrator[r] = "subquery"
    /\ Len(workflow_runs[r].state.clarifications) < MaxClarifications
    /\ pause(r, question)
    /\ UNCHANGED requests

\* SubqueryGenerator detects ambiguity and asks, when the run allows it
SubqueryGeneratorAsks(r, question) ==
    /\ orchestrator[r] = "subquery"
    /\ workflow_runs[r].ask_clarifications
    /\ Len(workflow_runs[r].state.clarifications) < MaxClarifications
    /\ pause(r, question)
    /\ UNCHANGED requests

SubqueryGeneratorDone(r) ==
    /\ orchestrator[r] = "subquery"
    /\ checkpoint(r, "subqueries", "subqueries", "reasoningbank")
    /\ UNCHANGED requests

ReasoningBankDone(r) ==
    /\ orchestrator[r] = "reasoningbank"
    /\ checkpoint(r, "reasoningbank_hits", "hits", "memory")
    /\ UNCHANGED requests

MemoryRetrievalDone(r, memories) ==
    /\ orchestrator[r] = "memory"
    /\ complete(r, memories)
    /\ UNCHANGED requests

CollaboratorFailure(r, error) ==
    /\ Driving(r)
    /\ fail(r, error)
    /\ UNCHANGED requests

\* {"command": "cancel"}
CancelCommand(r) ==
    /\ cancel(r)
    /\ UNCHANGED requests

\* ---- WS /workflow/ws/{workflow_id} ----
RECURSIVE OrderByIdDesc(_)
\* ORDER BY id DESC
OrderByIdDesc(rows) ==
    IF rows = {} THEN <<>>
    ELSE LET first == CHOOSE e \in rows : \A f \in rows : e.id >= f.id
         IN <<first>> \o OrderByIdDesc(rows \ {first})

RECURSIVE OrderById(_)
\* ORDER BY id
OrderById(rows) ==
    IF rows = {} THEN <<>>
    ELSE LET first == CHOOSE e \in rows : \A f \in rows : e.id <= f.id
         IN <<first>> \o OrderById(rows \ {first})

\* the cursor query with id >= cursor
readFromInclusive(workflow_id, cursor) ==
    IF cursor = <<>>
    THEN OrderById({e \in workflow_events : e.workflow_id = workflow_id})
    ELSE OrderById({e \in workflow_events :
                       e.workflow_id = workflow_id /\ e.id >= cursor[1]})

\* the cursor queries without their workflow_id condition
readFromAnyWorkflow(workflow_id, cursor) ==
    IF cursor = <<>>
    THEN OrderById(workflow_events)
    ELSE OrderById({e \in workflow_events : e.id > cursor[1]})

\* the two cursor queries; cursor is <<>> when the client sent none
readFrom(workflow_id, cursor) ==
    IF cursor = <<>>
    THEN OrderById({e \in workflow_events : e.workflow_id = workflow_id})
    ELSE OrderById({e \in workflow_events :
                       e.workflow_id = workflow_id /\ e.id > cursor[1]})

\* a client connects, or reconnects with the last id it saw
Connect(workflow_id, cursor) ==
    /\ query_result' = [workflow_id |-> workflow_id, cursor |-> cursor,
                        rows |-> readFrom(workflow_id, cursor)]
    /\ UNCHANGED <<workflows, workflow_runs, conversation_turns, workflow_events,
                   next_event_id, requests, orchestrator, op_result, site, page>>

Cursors == {<<>>} \cup {<<c>> : c \in 0..(next_event_id - 1)}

\* the final-only query: WHERE workflow_id = {workflow_id} AND is_final = true
readFinal(workflow_id) ==
    {e \in workflow_events : e.workflow_id = workflow_id /\ e.is_final}

\* a client opens the WebSocket, with ?cursor= and ?final_only= as it likes
Subscribe(s, workflow_id, cursor, final_only) ==
    /\ subscribers[s].status = "none"
    /\ workflow_id \in DOMAIN workflows
    /\ subscribers' = [subscribers EXCEPT ![s] =
           [status |-> "open", workflow_id |-> workflow_id,
            attached_final_only |-> final_only, final_only |-> final_only,
            start |-> cursor, cursor |-> cursor, delivered |-> <<>>]]
    /\ UNCHANGED <<workflows, workflow_runs, conversation_turns, workflow_events,
                   next_event_id, requests, orchestrator, op_result,
                   query_result, answer_response, site, page>>

\* the server sends the next event of the subscription; the stream ends with
\* the event that carries the final memories.  The final-only query has no
\* ORDER BY: any one of its rows may be the one sent.
Deliver(s) ==
    /\ subscribers[s].status = "open"
    /\ LET subscriber == subscribers[s]
           rows == readFrom(subscriber.workflow_id, subscriber.cursor)
           Send(e) ==
               subscribers' = [subscribers EXCEPT ![s] =
                   [subscriber EXCEPT
                       !.delivered = Append(subscriber.delivered, e),
                       !.cursor = <<e.id>>,
                       !.status = IF e.is_final THEN "ended" ELSE "open"]]
       IN IF subscriber.final_only
          THEN \E e \in readFinal(subscriber.workflow_id) : Send(e)
          ELSE rows # <<>> /\ Send(rows[1])
    /\ UNCHANGED <<workflows, workflow_runs, conversation_turns, workflow_events,
                   next_event_id, requests, orchestrator, op_result,
                   query_result, answer_response, site, page>>

\* {"command": "get_final"}
RequestFinal(s) ==
    /\ subscribers[s].status = "open"
    /\ ~subscribers[s].final_only
    /\ subscribers' = [subscribers EXCEPT ![s].final_only = TRUE]
    /\ UNCHANGED <<workflows, workflow_runs, conversation_turns, workflow_events,
                   next_event_id, requests, orchestrator, op_result,
                   query_result, answer_response, site, page>>

\* a cancel that closes every connection of the conversation
SubscriberCancelAll(s) ==
    /\ subscribers[s].status = "open"
    /\ \E r \in RunIds :
          /\ workflow_runs[r].workflow_id = subscribers[s].workflow_id
          /\ cancel(r)
    /\ subscribers' = [t \in DOMAIN subscribers |->
           IF subscribers[t].status = "open"
                 /\ subscribers[t].workflow_id = subscribers[s].workflow_id
           THEN [subscribers[t] EXCEPT !.status = "cancelled"]
           ELSE subscribers[t]]
    /\ UNCHANGED <<requests, query_result, answer_response, site, page>>

\* {"command": "cancel"} sent on subscription s: cancel workflow
SubscriberCancel(s) ==
    /\ subscribers[s].status = "open"
    /\ \E r \in RunIds :
          /\ workflow_runs[r].workflow_id = subscribers[s].workflow_id
          /\ cancel(r)
    /\ subscribers' = [subscribers EXCEPT ![s].status = "cancelled"]
    /\ UNCHANGED <<requests, query_result, answer_response, site, page>>

\* the connection of subscription s is lost; the client keeps what it received
Disconnect(s) ==
    /\ subscribers[s].status = "open"
    /\ subscribers' = [subscribers EXCEPT ![s].status = "closed"]
    /\ UNCHANGED <<workflows, workflow_runs, conversation_turns, workflow_events,
                   next_event_id, requests, orchestrator, op_result,
                   query_result, answer_response, site, page>>

\* a client that resumes from the newest id of the log
newestId(s) == <<next_event_id - 1>>

\* the id of the last event the client received on connection s, if any
lastSeenId(s) == subscribers[s].cursor

\* Pattern 3: resume after disconnect, on a new connection t
Reconnect(s, t) ==
    /\ subscribers[s].status = "closed"
    /\ Subscribe(t, subscribers[s].workflow_id, lastSeenId(s), FALSE)

\* ---- POST /workflow/ai-answer ----
\* an update that inserts the row when there is none
UpsertTurn(message_id, response, reasoning, tool_calls) ==
    IF \E t \in conversation_turns : t.message_id = message_id
    THEN {IF t.message_id = message_id
          THEN [t EXCEPT !.ai_answer = response, !.ai_reasoning = reasoning,
                         !.ai_tool_calls = tool_calls]
          ELSE t : t \in conversation_turns}
    ELSE conversation_turns \cup
         {[message_id |-> message_id, workflow_id |-> NULL, run_id |-> NULL,
           user_input |-> NoText, clarification_history |-> <<>>,
           subqueries |-> NoText, reasoningbank_hits |-> NoText,
           retrieved_memories |-> NoText, ai_answer |-> response,
           ai_reasoning |-> reasoning, ai_tool_calls |-> tool_calls]}

\* Scenario 4, step 1: UPDATE conversation_turns ... WHERE message_id = {message_id}
UpdateTurn(message_id, response, reasoning, tool_calls) ==
    {IF t.message_id = message_id
     THEN [t EXCEPT !.ai_answer = response, !.ai_reasoning = reasoning,
                    !.ai_tool_calls = tool_calls]
     ELSE t : t \in conversation_turns}

RecordAnswer(message_id, response, reasoning, tool_calls) ==
    /\ conversation_turns' = UpdateTurn(message_id, response, reasoning, tool_calls)
    /\ answer_response' =
          [message_id |-> message_id,
           status |-> IF \E t \in conversation_turns : t.message_id = message_id
                      THEN "ok" ELSE "NotFound"]
    /\ UNCHANGED <<workflows, workflow_runs, workflow_events, next_event_id,
                   requests, orchestrator, op_result, query_result, subscribers, site, page>>

\* requests arrive for ids 1..max_workflows + 1, the last one unknown
Requests(request_ids, max_workflows, max_runs) ==
    \/ \E q \in request_ids, user_input \in Inputs, ask_clarifications \in BOOLEAN :
          ExecuteNewConversation(q, user_input, ask_clarifications,
                                 max_workflows, max_runs)
    \/ \E q \in request_ids, workflow_id \in 1..(max_workflows + 1) :
          ExecuteClassify(q, workflow_id)
    \/ \E q \in request_ids, user_input \in Inputs, ask_clarifications \in BOOLEAN :
          ExecuteNewTurn(q, user_input, ask_clarifications, max_runs)
    \/ \E q \in request_ids : ExecuteReturn(q)

\* human-in-the-loop: the pipeline asks, a later request answers
Clarification(request_ids) ==
    \/ \E r \in RunIds, question \in Questions : SubqueryGeneratorAsks(r, question)
    \/ \E q \in request_ids, user_input \in Inputs : ExecuteClarification(q, user_input)

Pipeline ==
    \/ \E r \in RunIds : SubqueryGeneratorDone(r)
    \/ \E r \in RunIds : ReasoningBankDone(r)
    \/ \E r \in RunIds, memories \in Memories : MemoryRetrievalDone(r, memories)

Failure == \E r \in RunIds, error \in ErrorDetails : CollaboratorFailure(r, error)

\* every operation on runs and conversations, one request handler at a time
Next ==
    /\ \/ Requests(1..MaxRequests, MaxWorkflows, MaxRuns)
       \/ Clarification(1..MaxRequests)
       \/ Pipeline
       \/ Failure
       \/ \E r \in RunIds : CancelCommand(r)
    /\ UNCHANGED clients

Spec == Init /\ [][Next]_vars

\* concurrent request handlers over the pipeline's success path
RaceNext ==
    /\ \/ Requests(1..RaceRequests, RaceWorkflows, RaceRuns)
       \/ Pipeline
    /\ UNCHANGED clients

RaceSpec == Init /\ [][RaceNext]_vars

\* every writer of workflow_events, and the cursor queries reading it
LogNext ==
    \/ /\ \/ \E user_input \in Inputs, ask_clarifications \in BOOLEAN :
                ExecuteNewConversation(1, user_input, ask_clarifications,
                                       MaxWorkflows, MaxRuns)
          \/ ExecuteReturn(1)
          \/ Pipeline
          \/ Failure
       /\ UNCHANGED clients
    \/ /\ \E workflow_id \in 1..MaxWorkflows, cursor \in Cursors :
             Connect(workflow_id, cursor)
       /\ UNCHANGED <<subscribers, answer_response>>

LogSpec == Init /\ [][LogNext]_vars

\* subscribers of one conversation over its turns
StreamNext ==
    \/ /\ \/ \E user_input \in Inputs :
                ExecuteNewConversation(1, user_input, FALSE, RaceWorkflows, StreamRuns)
          \/ ExecuteClassify(1, 1)
          \/ \E user_input \in Inputs : ExecuteNewTurn(1, user_input, FALSE, StreamRuns)
          \/ ExecuteReturn(1)
          \/ Pipeline
          \/ Failure
       /\ UNCHANGED clients
    \* the first client connects as it likes, the others follow the whole stream
    \/ \E cursor \in Cursors, final_only \in BOOLEAN : Subscribe(1, 1, cursor, final_only)
    \/ \E s \in DOMAIN subscribers \ {1} : Subscribe(s, 1, <<>>, FALSE)
    \/ \E s \in DOMAIN subscribers : Deliver(s)
    \/ \E s \in DOMAIN subscribers : RequestFinal(s)
    \/ \E s \in DOMAIN subscribers : SubscriberCancel(s)

StreamSpec == Init /\ [][StreamNext]_vars

\* two request handlers and one run that pauses for clarification
ResumeNext ==
    /\ \/ \E q \in 1..RaceRequests, user_input \in Inputs :
             ExecuteNewConversation(q, user_input, TRUE, RaceWorkflows, ResumeRuns)
       \/ \E q \in 1..RaceRequests : ExecuteClassify(q, 1)
       \/ \E q \in 1..RaceRequests : ExecuteReturn(q)
       \/ Clarification(1..RaceRequests)
       \/ Pipeline
    /\ UNCHANGED clients

ResumeSpec == Init /\ [][ResumeNext]_vars

\* one conversation, its runs and turns, and the agent answers reported for them
AnswerNext ==
    \/ /\ \/ Requests(1..MaxRequests, RaceWorkflows, AnswerRuns)
          \/ Clarification(1..MaxRequests)
          \/ Pipeline
          \/ Failure
          \/ \E r \in RunIds : CancelCommand(r)
       /\ UNCHANGED clients
    \/ \E message_id \in 1..(AnswerRuns + 1), response \in Responses,
          reasoning \in Reasonings, tool_calls \in ToolCalls :
          RecordAnswer(message_id, response, reasoning, tool_calls)

AnswerSpec == Init /\ [][AnswerNext]_vars

\* a collaborator call of run r returns, with a result or with a failure
Returns(r) ==
    /\ r \in RunIds
    /\ \/ SubqueryGeneratorDone(r)
       \/ ReasoningBankDone(r)
       \/ \E memories \in Memories : MemoryRetrievalDone(r, memories)
       \/ \E error \in ErrorDetails : CollaboratorFailure(r, error)

\* the client reacts to the pending question of run r: it sends its answer,
\* or it cancels
Reacts(r) ==
    /\ r \in RunIds
    /\ workflow_runs[r].status = "waiting_for_input"
    /\ \/ \E q \in 1..RaceRequests : ExecuteClassify(q, workflow_runs[r].workflow_id)
       \/ CancelCommand(r)

\* a request handler that has started runs to its end
Proceeds(q) ==
    \/ \E user_input \in Inputs : ExecuteClarification(q, user_input)
    \/ ExecuteReturn(q)

\* two request handlers and one run, with failures and cancels
LiveNext ==
    /\ \/ \E q \in 1..RaceRequests, user_input \in Inputs :
             ExecuteNewConversation(q, user_input, TRUE, RaceWorkflows, ResumeRuns)
       \/ \E q \in 1..RaceRequests : ExecuteClassify(q, 1)
       \/ \E q \in 1..RaceRequests : ExecuteReturn(q)
       \/ Clarification(1..RaceRequests)
       \/ Pipeline
       \/ Failure
       \/ \E r \in RunIds : CancelCommand(r)
    /\ UNCHANGED clients

\* every collaborator call returns, every pending question is reacted to,
\* every handler finishes
Fairness ==
    /\ \A r \in 1..ResumeRuns : WF_vars(Returns(r) /\ UNCHANGED clients)
    /\ \A r \in 1..ResumeRuns : WF_vars(Reacts(r) /\ UNCHANGED clients)
    /\ \A q \in 1..RaceRequests : WF_vars(Proceeds(q) /\ UNCHANGED clients)

LiveSpec == Init /\ [][LiveNext]_vars /\ Fairness

\* one run that completes or fails, and its subscribers from the first event on
CloseNext ==
    \/ /\ \/ \E user_input \in Inputs :
                ExecuteNewConversation(1, user_input, FALSE, RaceWorkflows, ResumeRuns)
          \/ ExecuteReturn(1)
          \/ Pipeline
          \/ Failure
       /\ UNCHANGED clients
    \/ \E s \in DOMAIN subscribers, final_only \in BOOLEAN :
          Subscribe(s, 1, <<>>, final_only)
    \/ \E s \in DOMAIN subscribers : Deliver(s)
    \/ \E s \in DOMAIN subscribers : RequestFinal(s)

\* every collaborator call returns, and the server sends what it has to send
CloseFairness ==
    /\ \A r \in 1..ResumeRuns : WF_vars(Returns(r) /\ UNCHANGED clients)
    /\ \A s \in 1..MaxSubscribers : WF_vars(Deliver(s))

CloseSpec == Init /\ [][CloseNext]_vars /\ CloseFairness

\* two conversations, a client whose first connection breaks, and its second
ReconnectNext ==
    \/ /\ \/ \E user_input \in Inputs :
                ExecuteNewConversation(1, user_input, FALSE, MaxWorkflows, MaxRuns)
          \/ ExecuteReturn(1)
          \/ Pipeline
          \/ Failure
       /\ UNCHANGED clients
    \/ \E workflow_id \in 1..MaxWorkflows : Subscribe(1, workflow_id, <<>>, FALSE)
    \/ \E s \in DOMAIN subscribers : Deliver(s)
    \/ Disconnect(1)
    \/ Reconnect(1, 2)

ReconnectSpec == Init /\ [][ReconnectNext]_vars

\* two conversations side by side: their requests, runs and answers, and a
\* subscriber of the first
IsolationNext ==
    \/ /\ \/ \E user_input \in Inputs :
                ExecuteNewConversation(1, user_input, TRUE, MaxWorkflows, MaxRuns)
          \/ \E workflow_id \in 1..MaxWorkflows : ExecuteClassify(1, workflow_id)
          \/ \E user_input \in Inputs : ExecuteNewTurn(1, user_input, TRUE, MaxRuns)
          \/ ExecuteReturn(1)
          \/ Clarification(1..MaxRequests)
          \/ Pipeline
          \/ Failure
          \/ \E r \in RunIds : CancelCommand(r)
       /\ UNCHANGED clients
    \/ Subscribe(1, 1, <<>>, FALSE)
    \/ Deliver(1)
    \/ \E message_id \in 1..MaxRuns, tool_calls \in ToolCalls :
          RecordAnswer(message_id, "a1", NoText, tool_calls)

IsolationSpec == Init /\ [][IsolationNext]_vars

Timestamps == {"2025-01-01T00:00:00.000Z"}

backend == <<workflows, workflow_runs, conversation_turns, workflow_events,
             next_event_id, requests, orchestrator, op_result, query_result,
             subscribers, answer_response>>

\* the waitlist function under concurrent signups
WaitlistNext ==
    /\ \/ \E q \in DOMAIN posts, body \in Bodies : PostValidate(q, body)
       \/ \E q \in DOMAIN posts : PostSelect(q)
       \/ \E q \in DOMAIN posts, timestamp \in Timestamps : PostInsert(q, timestamp)
       \/ \E q \in DOMAIN posts : PostThrows(q)
       \/ \E q \in DOMAIN posts : PostReturn(q)
    /\ UNCHANGED <<backend, page>>

WaitlistSpec == Init /\ [][WaitlistNext]_vars

\* ---- the demo page: App.tsx, Memories.tsx ----
\* /query, /graph and /reasoning render Memories, /documents renders Documents
Locations == {"query", "graph", "reasoning", "documents"}

Mounted == location # "documents"

\* the steps pushed for subquery i, as their durations in ms: generate, query,
\* retrieve, and the decision step except after the last subquery
SubquerySteps(i) == <<180, 450, 280>> \o (IF i < 2 THEN <<240>> ELSE <<>>)

\* parseDuration(step.duration) of the steps in the order they are pushed
durations ==
    <<320>> \o SubquerySteps(0) \o SubquerySteps(1) \o SubquerySteps(2)
        \o <<240, 200>>

\* stepId starts at 1 and is incremented by every push
allSteps == [id \in DOMAIN durations |-> [id |-> id, duration |-> durations[id]]]

RECURSIVE cumulativeDelay(_)

\* the delay of the timer of step k: the durations of the steps before it
cumulativeDelay(k) ==
    IF k = 1 THEN 0 ELSE cumulativeDelay(k - 1) + allSteps[k - 1].duration

totalDelay == cumulativeDelay(Len(allSteps)) + allSteps[Len(allSteps)].duration

\* a pending timer: step 0 is the callback that calls setIsLoading(false);
\* the callback closes over the state setters of the instance that made it
Timer(call, step, delay) ==
    [instance |-> instance, call |-> call, step |-> step, remaining |-> delay]

\* <input disabled={isLoading}>
inputDisabled == isLoading

\* <button disabled={isLoading || !query.trim()}>
buttonDisabled == isLoading \/ trim(query) = <<>>

\* setResponse(null) is left out: response is null from the start and is
\* written nowhere else
handleQuery ==
    IF trim(query) = <<>>
    THEN UNCHANGED <<isLoading, reasoningSteps, timers, calls>>
    ELSE /\ calls < MaxCalls
         /\ isLoading' = TRUE
         /\ reasoningSteps' = <<>>
         /\ calls' = calls + 1
         /\ timers' = timers
                \o [k \in DOMAIN allSteps |->
                       Timer(calls + 1, k, cumulativeDelay(k))]
                \o <<Timer(calls + 1, 0, totalDelay)>>

\* onChange of the input
Change(chars) ==
    /\ location = "query"
    /\ ~inputDisabled
    /\ query' = chars
    /\ UNCHANGED <<location, isLoading, reasoningSteps, timers, instance, calls>>

\* handleKeyPress with Enter
KeyPress ==
    /\ location = "query"
    /\ ~inputDisabled
    /\ handleQuery
    /\ UNCHANGED <<location, query, instance>>

\* onClick of the send button
Click ==
    /\ location = "query"
    /\ ~buttonDisabled
    /\ handleQuery
    /\ UNCHANGED <<location, query, instance>>

\* a link of the header, or the browser's back button: between its own three
\* routes Memories keeps its state, coming back from /documents mounts a new
\* instance with the initial state; no timer is cleared
Navigate(to) ==
    /\ to # location
    /\ location' = to
    /\ IF Mounted
       THEN UNCHANGED <<query, isLoading, reasoningSteps, instance>>
       ELSE /\ instance < MaxMounts
            /\ instance' = instance + 1
            /\ query' = DefaultQuery
            /\ isLoading' = FALSE
            /\ reasoningSteps' = <<>>
    /\ UNCHANGED <<timers, calls>>

\* ms until the next timer is due
MinRemaining ==
    IF timers = <<>> THEN 0
    ELSE CHOOSE ms \in {timers[i].remaining : i \in DOMAIN timers} :
            \A i \in DOMAIN timers : ms <= timers[i].remaining

\* time passes, at most until the next timer is due
Elapse(ms) ==
    /\ timers # <<>>
    /\ 0 < ms /\ ms <= MinRemaining
    /\ timers' = [i \in DOMAIN timers |->
                     [timers[i] EXCEPT !.remaining = @ - ms]]
    /\ UNCHANGED <<location, query, isLoading, reasoningSteps, instance, calls>>

Without(i) == SubSeq(timers, 1, i - 1) \o SubSeq(timers, i + 1, Len(timers))

\* the timer callback of step k: setReasoningSteps with the duplicate check
AppendStep(k) ==
    IF \E j \in DOMAIN reasoningSteps : reasoningSteps[j].id = allSteps[k].id
    THEN reasoningSteps
    ELSE Append(reasoningSteps, allSteps[k])

\* the oldest of the timers that are due runs; the setters of an instance
\* that is no longer mounted change nothing
Fire(i) ==
    /\ timers[i].remaining = 0
    /\ \A j \in 1..(i - 1) : timers[j].remaining > 0
    /\ timers' = Without(i)
    /\ IF Mounted /\ timers[i].instance = instance
       THEN IF timers[i].step = 0
            THEN isLoading' = FALSE /\ UNCHANGED reasoningSteps
            ELSE reasoningSteps' = AppendStep(timers[i].step) /\ UNCHANGED isLoading
       ELSE UNCHANGED <<isLoading, reasoningSteps>>
    /\ UNCHANGED <<location, query, instance, calls>>

PageNext ==
    /\ \/ \E chars \in Queries : Change(chars)
       \/ KeyPress
       \/ Click
       \/ \E to \in Locations : Navigate(to)
       \/ \E ms \in {Tick, MinRemaining} : Elapse(ms)
       \/ \E i \in DOMAIN timers : Fire(i)
    /\ UNCHANGED <<backend, site>>

PageSpec == Init /\ [][PageNext]_vars

\* ---- properties ----
RunsOf(workflow_id) == {r \in RunIds : workflow_runs[r].workflow_id = workflow_id}
ActiveRuns(workflow_id) ==
    {r \in RunsOf(workflow_id) : workflow_runs[r].status \in ActiveStatus}
EventsOf(workflow_id) == {e \in workflow_events : e.workflow_id = workflow_id}

\* the handler in slot q takes the step that classifies its request
Classifies(q) ==
    /\ requests[q].pc = "idle"
    /\ requests'[q].pc # "idle"
    /\ requests'[q].scenario # "new_conversation"

\* the handler in slot q takes the step that writes the scenario it selected
Applies(q, scenario) ==
    /\ requests[q].pc = "classified"
    /\ requests[q].scenario = scenario
    /\ requests'[q].pc = "done"

\* C1: each conversation has at most one run that is running or
\* waiting_for_input, however start/continue requests, answers, completions,
\* failures and cancels interleave; two concurrent continue requests that both
\* saw a null current_run_id never both create a run.
C1_SingleActiveRun ==
    \A w \in DOMAIN workflows : Cardinality(ActiveRuns(w)) <= 1

\* C2: a conversation's current_run_id is non-null exactly when the
\* conversation has a non-terminal run, and then it points to that run.
C2_PointerTracksActiveRun ==
    \A w \in DOMAIN workflows :
        LET current_run_id == workflows[w].current_run_id IN
        /\ (current_run_id # NULL) <=> (ActiveRuns(w) # {})
        /\ current_run_id # NULL => ActiveRuns(w) = {current_run_id}

LegalTransitions ==
    {<<"running", "waiting_for_input">>, <<"waiting_for_input", "running">>,
     <<"running", "completed">>,
     <<"running", "failed">>, <<"waiting_for_input", "failed">>,
     <<"running", "cancelled">>, <<"waiting_for_input", "cancelled">>}

\* C3: every run is created in status running, and every later change of a
\* run's status is pause, submitClarification, complete, fail or cancel from a
\* status that operation is legal in; no other status change occurs.
C3_StatusGraph ==
    [][\A r \in DOMAIN workflow_runs' :
          IF r \in RunIds
          THEN \/ workflow_runs'[r].status = workflow_runs[r].status
               \/ <<workflow_runs[r].status, workflow_runs'[r].status>>
                      \in LegalTransitions
          ELSE workflow_runs'[r].status = "running"]_vars

\* C4: a run operation whose status precondition does not hold fails with
\* InvalidState and leaves the run's row unchanged: any operation on a
\* completed, failed or cancelled run, submitClarification on a running run,
\* pause and complete on a waiting_for_input run.
C4_RefusedOperations ==
    [][\A r \in RunIds :
          LET run == workflow_runs[r] IN
          \* submitClarification by a request handler
          /\ \A q \in DOMAIN requests :
                (Applies(q, "clarification") /\ requests[q].current_run = r
                    /\ run.status # "waiting_for_input")
                => (workflow_runs'[r] = run /\ requests'[q].code # 200)
          \* nothing moves a run out of a terminal status
          /\ run.status \in TerminalStatus => workflow_runs'[r] = run
          \* pause, checkpoint, complete and fail by the pipeline
          /\ (Driving(r) /\ orchestrator'[r] = "stopped"
                 /\ run.status \in TerminalStatus)
             => op_result' = "InvalidState"
          /\ (Driving(r) /\ orchestrator'[r] # orchestrator[r]
                 /\ run.status = "waiting_for_input")
             => \/ workflow_runs'[r].status = "failed"
                \/ workflow_runs'[r] = run /\ op_result' = "InvalidState"]_vars

\* C5: when a run that paused with question Q receives answer A, the run is
\* running, the last element of its clarification history is {Q, A}, the
\* earlier elements are unchanged, and pending_question is empty.
C5_RoundTrip ==
    [][\A q \in DOMAIN requests :
          LET r == requests[q].current_run IN
          (Applies(q, "clarification")
              /\ workflow_runs[r].status = "waiting_for_input")
          => /\ workflow_runs'[r].status = "running"
             /\ \E answer \in Inputs :
                   workflow_runs'[r].state.clarifications =
                       Append(workflow_runs[r].state.clarifications,
                              [question |-> workflow_runs[r].state.pending_question,
                               answer |-> answer])
             /\ workflow_runs'[r].state.pending_question = NoText]_vars

C7_Busy ==
    [][\A q \in DOMAIN requests :
          /\ (Classifies(q)
                /\ requests'[q].workflow_id \in DOMAIN workflows
                /\ workflows[requests'[q].workflow_id].current_run_id # NULL
                /\ workflow_runs[workflows[requests'[q].workflow_id].current_run_id]
                       .status = "running")
             => /\ requests'[q].pc = "done"
                /\ requests'[q].scenario = "ConflictError"
                /\ requests'[q].code = 409
                /\ UNCHANGED <<workflows, workflow_runs, workflow_events,
                               conversation_turns>>
          \* a handler that has responded writes nothing more
          /\ (requests[q].pc = "done" /\ requests'[q] # requests[q])
             => /\ requests'[q] = IdleRequest
                /\ UNCHANGED <<workflows, workflow_runs, workflow_events,
                               conversation_turns>>]_vars

\* a request was refused as busy and the run it met is still running
C7_Witness ==
    \E q \in DOMAIN requests :
        /\ requests[q].pc = "done"
        /\ requests[q].code = 409
        /\ LET current_run_id == workflows[requests[q].workflow_id].current_run_id
           IN /\ current_run_id # NULL
              /\ workflow_runs[current_run_id].status = "running"
              /\ workflow_runs[current_run_id].state.subqueries # NoText

MessageIds == {workflow_runs[r].message_id : r \in RunIds}

\* C8: once a conversation's run is completed, failed or cancelled, the next
\* continue request for the conversation is classified as a new turn, not as
\* busy and not as a clarification answer, and it creates a new running run
\* with a new message id; the turns already recorded remain.
C8_NewTurnAfterTerminal ==
    [][\A q \in DOMAIN requests :
          /\ (Classifies(q)
                /\ requests'[q].workflow_id \in DOMAIN workflows
                /\ \A r \in RunsOf(requests'[q].workflow_id) :
                      workflow_runs[r].status \in TerminalStatus)
             => /\ requests'[q].pc = "classified"
                /\ requests'[q].scenario = "new_turn"
          /\ Applies(q, "new_turn")
             => LET workflow_id == requests[q].workflow_id
                    run_id == Len(workflow_runs')
                IN /\ Len(workflow_runs') = Len(workflow_runs) + 1
                   /\ \A r \in RunIds : workflow_runs'[r] = workflow_runs[r]
                   /\ workflow_runs'[run_id].workflow_id = workflow_id
                   /\ workflow_runs'[run_id].status = "running"
                   /\ workflow_runs'[run_id].message_id \notin MessageIds
                   /\ workflows'[workflow_id].current_run_id = run_id
                   /\ conversation_turns' = conversation_turns
                   /\ requests'[q].code = 200]_vars

\* a conversation with a completed first turn and a second run under way
C8_Witness ==
    \E q \in DOMAIN requests, r1 \in RunIds, r2 \in RunIds :
        /\ requests[q].pc = "done"
        /\ requests[q].scenario = "new_turn"
        /\ workflow_runs[r1].workflow_id = workflow_runs[r2].workflow_id
        /\ workflow_runs[r1].status = "completed"
        /\ workflow_runs[r2].status = "running"
        /\ workflow_runs[r2].message_id # workflow_runs[r1].message_id
        /\ workflows[workflow_runs[r2].workflow_id].current_run_id = r2
        /\ \E t \in conversation_turns : t.run_id = r1

\* C9: within a conversation cursors are unique and strictly increase in
\* append order, whichever writers append; an append never changes or removes
\* an event that is already in the log.
C9_CursorsIncrease ==
    [][/\ workflow_events \subseteq workflow_events'
       /\ \A e \in workflow_events' \ workflow_events :
             \A f \in workflow_events :
                f.workflow_id = e.workflow_id => f.id < e.id
       /\ \A e, f \in workflow_events' : e.id = f.id => e = f]_vars

\* two writers have appended in turn: the events of two conversations alternate
C9_Witness ==
    \E e1, e2, e3 \in workflow_events :
        /\ e1.workflow_id = e3.workflow_id
        /\ e2.workflow_id # e1.workflow_id
        /\ e1.id < e2.id
        /\ e2.id < e3.id

\* C10: readFrom(conversation, C) yields exactly the events of the
\* conversation with cursor greater than C, in increasing cursor order, and
\* every event of the conversation when C is omitted; it never yields an event
\* with cursor less than or equal to C.
C10_ReadFrom ==
    [][query_result' # query_result
       => LET workflow_id == query_result'.workflow_id
              cursor == query_result'.cursor
              rows == query_result'.rows
              After(e) == cursor = <<>> \/ e.id > cursor[1]
          IN /\ \A i \in DOMAIN rows :
                   /\ rows[i] \in workflow_events
                   /\ rows[i].workflow_id = workflow_id
                   /\ After(rows[i])
             /\ \A i, j \in DOMAIN rows : i < j => rows[i].id < rows[j].id
             /\ \A e \in EventsOf(workflow_id) :
                   After(e) => \E i \in DOMAIN rows : rows[i] = e]_vars

\* a reconnect with a cursor in the middle of a conversation's events, while
\* another conversation has events on both sides of it
C10_Witness ==
    /\ query_result.cursor # <<>>
    /\ Len(query_result.rows) >= 2
    /\ \E e \in EventsOf(query_result.workflow_id) : e.id = query_result.cursor[1]
    /\ \E e \in workflow_events :
          /\ e.workflow_id # query_result.workflow_id
          /\ e.id > query_result.cursor[1]

Delivered(s) == {subscribers[s].delivered[i] : i \in DOMAIN subscribers[s].delivered}

\* C11: a normal-mode subscriber attached with starting cursor C receives
\* every event of the conversation with cursor greater than C exactly once and
\* in cursor order, up to and including the first event marked is_final; after
\* that event nothing more is delivered to it, whatever is appended later.
C11_NormalStream ==
    \A s \in DOMAIN subscribers :
        LET subscriber == subscribers[s]
            delivered == subscriber.delivered
            After(e) == subscriber.start = <<>> \/ e.id > subscriber.start[1]
        IN (subscriber.status # "none" /\ ~subscriber.final_only)
           => /\ \A i \in DOMAIN delivered :
                    /\ delivered[i] \in EventsOf(subscriber.workflow_id)
                    /\ After(delivered[i])
                    /\ i < Len(delivered) => ~delivered[i].is_final
              /\ \A i, j \in DOMAIN delivered :
                    i < j => delivered[i].id < delivered[j].id
              /\ \A e \in EventsOf(subscriber.workflow_id) :
                    (After(e) /\ delivered # <<>>
                        /\ e.id <= delivered[Len(delivered)].id)
                    => e \in Delivered(s)
              /\ subscriber.status = "ended"
                    <=> (delivered # <<>> /\ delivered[Len(delivered)].is_final)

\* a reconnect in the middle of the first turn was served up to that turn's
\* final event, and the next turn has appended events since
C11_Witness ==
    \E s \in DOMAIN subscribers :
        /\ subscribers[s].status = "ended"
        /\ ~subscribers[s].final_only
        /\ subscribers[s].start # <<>>
        /\ Len(subscribers[s].delivered) >= 2
        /\ \E e \in EventsOf(subscribers[s].workflow_id) :
              /\ e.id <= subscribers[s].start[1]
              /\ ~e.is_final
        /\ \E e \in EventsOf(subscribers[s].workflow_id) :
              e.id > subscribers[s].cursor[1]

\* C12: a final-only subscriber never receives an event that is not marked
\* is_final, and it receives exactly one event, the final event of the
\* conversation, before its stream ends, whether it attached before any event
\* existed, while the run was in progress, or after the final event was appended.
C12_FinalOnlyStream ==
    [][\A s \in DOMAIN subscribers :
          LET subscriber == subscribers[s] IN
          (subscriber.attached_final_only /\ subscribers'[s] # subscriber)
          => \/ subscribers'[s] = [subscriber EXCEPT !.status = "cancelled"]
             \/ \E e \in workflow_events :
                   /\ e.is_final
                   /\ readFinal(subscriber.workflow_id) = {e}
                   /\ subscriber.delivered = <<>>
                   /\ subscribers'[s].delivered = <<e>>
                   /\ subscribers'[s].status = "ended"]_vars

\* C13: after a normal-mode subscriber has sent get_final, no event that is
\* not marked is_final is delivered to it any more; it then receives the final
\* event of the conversation exactly once and its stream ends.
C13_RequestFinal ==
    [][\A s \in DOMAIN subscribers :
          LET subscriber == subscribers[s] IN
          (~subscriber.attached_final_only /\ subscriber.final_only
              /\ subscribers'[s] # subscriber)
          => \/ subscribers'[s] = [subscriber EXCEPT !.status = "cancelled"]
             \/ \E e \in workflow_events :
                   /\ e.is_final
                   /\ readFinal(subscriber.workflow_id) = {e}
                   /\ e \notin Delivered(s)
                   /\ subscribers'[s].delivered = Append(subscriber.delivered, e)
                   /\ subscribers'[s].status = "ended"]_vars

\* subscription s is ended by its cancel command in this step
Cancels(s) ==
    /\ subscribers[s].status = "open"
    /\ subscribers'[s].status = "cancelled"

C15_ReadFinalStable ==
    [][\A w \in DOMAIN workflows :
          (\E r \in RunsOf(w) : workflow_runs[r].status = "completed")
          => readFinal(w)' = readFinal(w)]_vars

\* C16: readFinal returns none as long as no event marked is_final has been
\* appended for the conversation and afterwards that event: a conversation
\* holds at most one event marked is_final, over all of its runs.
C16_OneFinalEvent ==
    \A w \in DOMAIN workflows :
        Cardinality(readFinal(w)) <= 1

\* C17: each run has at most one turn, each turn has exactly one originating
\* run and no two turns share one, and a turn's message id and conversation
\* are those of its originating run.
C17_OneTurnPerRun ==
    /\ \A t \in conversation_turns :
          /\ t.run_id \in RunIds
          /\ t.message_id = workflow_runs[t.run_id].message_id
          /\ t.workflow_id = workflow_runs[t.run_id].workflow_id
    /\ \A t, u \in conversation_turns :
          (t.run_id = u.run_id \/ t.message_id = u.message_id) => t = u

\* a run that had completed was resumed by a late clarification answer and
\* reached completion again: the second turn was refused
C17_Witness ==
    /\ op_result = "IntegrityError"
    /\ \E t \in conversation_turns :
          /\ workflow_runs[t.run_id].status = "running"
          /\ workflow_runs[t.run_id].state.clarifications
                 # t.clarification_history

\* C18: a turn exists for a run if and only if the run's status is completed:
\* the turn is written when the run completes, before any agent answer, and
\* runs that are running, waiting_for_input, failed or cancelled have no turn.
C18_TurnIffCompleted ==
    \A r \in RunIds :
        /\ (\E t \in conversation_turns : t.run_id = r)
              <=> workflow_runs[r].status = "completed"
        /\ \A t \in conversation_turns :
              (t.run_id = r /\ t.ai_answer = NoText)
              => t.retrieved_memories = workflow_runs[r].final_output

\* a POST /workflow/ai-answer is handled in this step
AnswerStep ==
    \/ answer_response' # answer_response
    \/ /\ conversation_turns' # conversation_turns
       /\ {t.run_id : t \in conversation_turns'} = {t.run_id : t \in conversation_turns}

C20_AnswerWrittenOnce ==
    [][\A t \in conversation_turns :
          t.ai_answer # NoText => t \in conversation_turns']_vars

\* handler q sends its answer in this step, having passed the validation
Answers(q) == posts[q].pc \in {"select", "insert"} /\ posts'[q].pc = "done"

\* C21: whatever the interleaving of POST /api/waitlist handlers, a request
\* whose normalized email is in the table when it is answered -- stored
\* earlier, or stored meanwhile by a concurrent request -- gets status 200
\* with alreadyExists = true, and adds no row.
C21_DuplicateAnswered ==
    [][\A q \in DOMAIN posts :
          Answers(q) /\ existing(posts[q].normalizedEmail)
          => /\ posts'[q].response.status = 200
             /\ posts'[q].response.alreadyExists
             /\ waitlist' = waitlist]_vars

\* C22: every stored email is its own lowercased and trimmed form and no two
\* rows hold the same email; a request is answered 'Successfully added' only
\* when no row held the lowercased form of its address, so addresses that
\* differ in letter case share one row.
C22_NormalizedUnique ==
    /\ \A i \in DOMAIN waitlist :
          /\ waitlist[i].email = trim(waitlist[i].email)
          /\ waitlist[i].email = toLowerCase(waitlist[i].email)
    /\ \A i, j \in DOMAIN waitlist :
          waitlist[i].email = waitlist[j].email => i = j
    /\ \A q \in DOMAIN posts :
          posts[q].pc = "done" /\ posts[q].response.status = 200
          => Cardinality({i \in DOMAIN waitlist :
                 waitlist[i].email = trim(toLowerCase(posts[q].body.chars))}) = 1

\* two requests for one address in different letter case are answered, the
\* first added and the second found, and the table has the one row
C22_Witness ==
    /\ Len(waitlist) = 1
    /\ \E q1, q2 \in DOMAIN posts :
          /\ posts[q1].pc = "done" /\ posts[q2].pc = "done"
          /\ posts[q1].body.chars = <<"A", "@", "b", ".", "a">>
          /\ posts[q2].body.chars = <<"a", "@", "B", ".", "A">>
          /\ ~posts[q1].response.alreadyExists
          /\ posts[q1].response.status = 200
          /\ posts[q2].response.alreadyExists

\* the request carries no email, or one that is not a string, or a string
\* that is not local@domain.tld
MissingEmail(body) == body.json # "object" \/ body.type = "undefined"

BadEmail(body) ==
    \/ MissingEmail(body)
    \/ body.type # "string"
    \/ ~emailRegexTest(body.chars)

\* C23: a POST /api/waitlist whose email is missing, is not a string or does
\* not match local@domain.tld is answered with status 400 and an error
\* message, without a query on the waitlist table and without a change to it.
C23_BadRequest ==
    [][\A q \in DOMAIN posts :
          posts[q].pc = "idle" /\ posts'[q].pc # "idle" /\ BadEmail(posts'[q].body)
          => /\ posts'[q].pc = "done"
             /\ posts'[q].response.status = 400
             /\ posts'[q].response.error # NoText
             /\ posts'[q].existing = "unread"
             /\ waitlist' = waitlist]_vars

\* C24: a run has a final output exactly when its status is completed, and a
\* failed run has an error detail; completing and failing write the field in
\* the step that writes the status.
C24_OutputIffCompleted ==
    \A r \in RunIds :
        /\ workflow_runs[r].final_output # NoText
              <=> workflow_runs[r].status = "completed"
        /\ workflow_runs[r].status = "failed" => workflow_runs[r].error # NoText

FinalEventsOf(r) == {e \in workflow_events : e.run_id = r /\ e.is_final}

Completes(r) ==
    /\ r \in RunIds
    /\ workflow_runs[r].status # "completed"
    /\ workflow_runs'[r].status = "completed"

\* C25: the step that completes a run appends exactly one event marked
\* is_final for it, whose payload is the run's final output, and writes the
\* run's turn with the same retrieved memories; a run without a final output,
\* one that never completed, has no event marked is_final.
C25_FinalEvent ==
    [][\A r \in DOMAIN workflow_runs' :
          /\ Completes(r)
             => /\ \E e \in workflow_events' \ workflow_events :
                      /\ FinalEventsOf(r)' = {e}
                      /\ e.data = workflow_runs'[r].final_output
                /\ \E t \in conversation_turns' \ conversation_turns :
                      /\ t.run_id = r
                      /\ t.retrieved_memories = workflow_runs'[r].final_output
          /\ workflow_runs'[r].final_output = NoText => FinalEventsOf(r)' = {}]_vars

\* one run completed and has its final event, another failed and has none
C25_Witness ==
    \E r1, r2 \in RunIds :
        /\ workflow_runs[r1].status = "completed"
        /\ Cardinality(FinalEventsOf(r1)) = 1
        /\ workflow_runs[r2].status = "failed"
        /\ FinalEventsOf(r2) = {}
        /\ EventsOf(workflow_runs[r2].workflow_id) # {}

\* a failure is recorded for the running run r: any one of its three traces
Fails(r) ==
    /\ r \in RunIds
    /\ workflow_runs[r].status = "running"
    /\ \/ workflow_runs'[r].status = "failed"
       \/ workflow_runs'[r].error # workflow_runs[r].error
       \/ \E e \in workflow_events' \ workflow_events : e.run_id = r /\ e.is_error

\* C26: a failure is recorded for a running run only when one of its stages
\* reports it, and that one step sets the run to failed, stores the failure as
\* its error detail, appends exactly one event, marked is_error and not
\* is_final, clears the conversation's pointer, and writes no turn.
C26_Failure ==
    [][\A r \in RunIds :
          Fails(r)
          => /\ Driving(r)
             /\ workflow_runs'[r].status = "failed"
             /\ workflow_runs'[r].error \in ErrorDetails
             /\ \E e \in workflow_events' :
                   /\ workflow_events' \ workflow_events = {e}
                   /\ e.run_id = r /\ e.is_error /\ ~e.is_final
                   /\ e.data = workflow_runs'[r].error
             /\ workflows'[workflow_runs[r].workflow_id].current_run_id = NULL
             /\ conversation_turns' = conversation_turns
             /\ FinalEventsOf(r)' = FinalEventsOf(r)]_vars

\* a run failed in the retrieval stage: its error event is the last event of
\* the conversation, no turn and no final event exist for it
C26_Witness ==
    \E r \in RunIds :
        /\ workflow_runs[r].status = "failed"
        /\ workflow_runs[r].state.reasoningbank_hits # NoText
        /\ \E e \in workflow_events : e.run_id = r /\ e.is_error
        /\ \A t \in conversation_turns : t.run_id # r
        /\ FinalEventsOf(r) = {}
        /\ workflows[workflow_runs[r].workflow_id].current_run_id = NULL

RunEvents(r) == {e \in workflow_events : e.run_id = r}

\* C27: a cancelled run stays cancelled, its checkpoint fields keep their
\* values and no event is appended for it any more, also when a stage that
\* was running at the cancellation returns afterwards.
C27_CancelledIsFinal ==
    [][\A r \in RunIds :
          workflow_runs[r].status = "cancelled"
          => /\ workflow_runs'[r].status = "cancelled"
             /\ workflow_runs'[r].state = workflow_runs[r].state
             /\ RunEvents(r)' = RunEvents(r)]_vars

\* C28: a clarification answer is applied only to a run that is
\* waiting_for_input: it moves the run to running and appends one
\* {question, answer} pair; an answer that finds the run resumed already is
\* rejected and changes nothing, so of two concurrent answers one is applied.
C28_OneResumingInput ==
    [][\A r \in RunIds :
          workflow_runs'[r].state.clarifications # workflow_runs[r].state.clarifications
          => /\ workflow_runs[r].status = "waiting_for_input"
             /\ workflow_runs'[r].status = "running"
             /\ \E answer \in Inputs :
                   workflow_runs'[r].state.clarifications =
                       Append(workflow_runs[r].state.clarifications,
                              [question |-> workflow_runs[r].state.pending_question,
                               answer |-> answer])]_vars

Terminal(r) ==
    IF r \in RunIds THEN workflow_runs[r].status \in TerminalStatus ELSE FALSE

\* run r is running after a clarification answer
Resumed(r) ==
    IF r \in RunIds
    THEN /\ workflow_runs[r].status = "running"
         /\ workflow_runs[r].state.clarifications # <<>>
    ELSE FALSE

\* run r has ended, and with a final output if it ended as completed
Concluded(r) ==
    IF r \in RunIds
    THEN /\ workflow_runs[r].status \in TerminalStatus
         /\ workflow_runs[r].status = "completed"
            => workflow_runs[r].final_output # NoText
    ELSE FALSE

PointerNull(w) ==
    IF w \in DOMAIN workflows THEN workflows[w].current_run_id = NULL ELSE FALSE

Awaits(s) ==
    /\ subscribers[s].status = "open"
    /\ RunsOf(subscribers[s].workflow_id) # {}
    /\ \A r \in RunsOf(subscribers[s].workflow_id) : Terminal(r)

\* the stream of subscription s has ended, after a final or an error event
StreamEnded(s) ==
    /\ subscribers[s].status = "ended"
    /\ subscribers[s].delivered # <<>>
    /\ LET last == subscribers[s].delivered[Len(subscribers[s].delivered)]
       IN last.is_final \/ last.is_error

C32_PendingIffWaiting ==
    \A r \in RunIds :
        workflow_runs[r].state.pending_question # NoText
        <=> workflow_runs[r].status = "waiting_for_input"

\* C33: every progress event of a run has a smaller id than the run's event
\* marked is_final or is_error, and no step appends an event for a run whose
\* status is terminal.
C33_EventsBeforeEnd ==
    [][/\ \A e1, e2 \in workflow_events' :
             (e1.run_id = e2.run_id /\ ~e1.is_final /\ ~e1.is_error
                 /\ (e2.is_final \/ e2.is_error))
             => e1.id < e2.id
       /\ \A r \in RunIds : Terminal(r) => RunEvents(r)' = RunEvents(r)]_vars

\* what the client received over the broken connection s and the new one t
Received(s, t) == subscribers[s].delivered \o subscribers[t].delivered

\* connection t is the one the client of the broken connection s came back on
Resumes(s, t) ==
    /\ s # t
    /\ subscribers[s].status = "closed"
    /\ subscribers[s].delivered # <<>>
    /\ subscribers[t].status # "none"
    /\ subscribers[t].workflow_id = subscribers[s].workflow_id

\* C34: a subscriber that loses its connection after the event with id C and
\* reconnects with cursor = C has received, over both connections together,
\* what an uninterrupted subscriber has: the conversation's events in id
\* order from the first one on, none twice and none left out, also when
\* events were appended around the reconnect.
C34_ResumeAfterDisconnect ==
    \A s, t \in DOMAIN subscribers :
        Resumes(s, t)
        => LET log == OrderById(EventsOf(subscribers[s].workflow_id))
           IN /\ Len(Received(s, t)) <= Len(log)
              /\ Received(s, t) = SubSeq(log, 1, Len(Received(s, t)))

\* events were appended between the loss of the connection and the reconnect,
\* the other conversation has an event in between, and the second connection
\* has delivered up to the final event
C34_Witness ==
    \E s, t \in DOMAIN subscribers :
        /\ Resumes(s, t)
        /\ subscribers[t].status = "ended"
        /\ Len(subscribers[t].delivered) >= 2
        /\ \E e \in workflow_events :
              /\ e.workflow_id # subscribers[s].workflow_id
              /\ e.id > subscribers[s].cursor[1]
              /\ e.id < subscribers[t].cursor[1]

History(r) == workflow_runs[r].state.clarifications

\* the step ends a pause of run r: the run goes from waiting_for_input to running
EndsPause(r) ==
    /\ workflow_runs[r].status = "waiting_for_input"
    /\ workflow_runs'[r].status = "running"

\* C35: a run's clarification history only grows at its end; it grows by one
\* pair in exactly the steps that end a pause, so that its length is the
\* number of pause and answer cycles the run has finished; the turn written
\* at completion carries the run's history of that moment.
C35_HistoryGrows ==
    [][\A r \in RunIds :
          /\ Len(History(r)) <= Len(History(r)')
          /\ SubSeq(History(r)', 1, Len(History(r))) = History(r)
          /\ Len(History(r)') = Len(History(r)) + (IF EndsPause(r) THEN 1 ELSE 0)
          /\ Completes(r)
             => \E t \in conversation_turns' \ conversation_turns :
                   t.run_id = r /\ t.clarification_history = History(r)']_vars

\* all that the tables hold of conversation w
Conversation(w) ==
    IF w \in DOMAIN workflows
    THEN [workflow |-> <<workflows[w]>>,
          runs |-> {<<r, workflow_runs[r]>> : r \in RunsOf(w)},
          turns |-> {t \in conversation_turns : t.workflow_id = w},
          events |-> EventsOf(w)]
    ELSE [workflow |-> <<>>, runs |-> {}, turns |-> {}, events |-> {}]

\* C36: a step changes the pointer, runs, turns and events of at most one
\* conversation, which for a request is the conversation it names; and a
\* subscriber of one conversation is never sent an event of another, although
\* event ids come from one sequence.
C36_Isolation ==
    [][/\ \A w1, w2 \in 1..MaxWorkflows :
             w1 # w2 => \/ Conversation(w1)' = Conversation(w1)
                        \/ Conversation(w2)' = Conversation(w2)
       /\ \A q \in DOMAIN requests, w \in 1..MaxWorkflows :
             (requests'[q] # requests[q] /\ requests'[q].workflow_id \notin {w, NULL})
             => Conversation(w)' = Conversation(w)
       /\ \A s \in DOMAIN subscribers :
             \A i \in DOMAIN subscribers'[s].delivered :
                subscribers'[s].delivered[i].workflow_id = subscribers'[s].workflow_id]_vars

\* both conversations have events with interleaved ids, a turn each, an
\* answer recorded for one of them, and a subscriber has been served its
\* conversation's stream to the end
C36_Witness ==
    /\ \E e1, e2, e3 \in workflow_events :
          /\ e1.id < e2.id /\ e2.id < e3.id
          /\ e1.workflow_id = e3.workflow_id
          /\ e2.workflow_id # e1.workflow_id
    /\ \E t1, t2 \in conversation_turns :
          /\ t1.workflow_id # t2.workflow_id
          /\ t1.ai_answer # NoText
          /\ t2.ai_answer = NoText
    /\ \E s \in DOMAIN subscribers :
          /\ subscribers[s].status = "ended"
          /\ Len(subscribers[s].delivered) >= 3

\* handler q sends its response in this step
Responds(q) == posts[q].pc # "done" /\ posts'[q].pc = "done"

HasWhiteSpace(chars) == \E i \in DOMAIN chars : chars[i] \in WhiteSpace

\* C38: the handler validates the email as it was sent, before normalizing
\* it: a string with white space, leading and trailing included, is answered
\* 400 'Invalid email format' before any query, and an email that has passed
\* the validation has no white space, so what is looked up and stored is its
\* lowercased form, with nothing for trim to remove.
C38_ValidatedBeforeNormalized ==
    [][\A q \in DOMAIN posts :
          /\ posts[q].pc \in {"select", "insert"}
             => /\ ~HasWhiteSpace(posts[q].body.chars)
                /\ posts[q].normalizedEmail = toLowerCase(posts[q].body.chars)
          /\ (/\ posts[q].pc = "idle" /\ posts'[q].pc # "idle"
              /\ posts'[q].body.json = "object"
              /\ posts'[q].body.type = "string"
              /\ HasWhiteSpace(posts'[q].body.chars))
             => /\ posts'[q].pc = "done"
                /\ posts'[q].response = ErrorResponse(400, "Invalid email format")
                /\ posts'[q].existing = "unread"
                /\ waitlist' = waitlist
          /\ \A i \in DOMAIN waitlist' : ~HasWhiteSpace(waitlist'[i].email)]_vars

\* an address that is well-formed once trimmed was refused, although the
\* trimmed address is not in the table that holds another one
C38_Witness ==
    \E q \in DOMAIN posts :
        /\ posts[q].pc = "done"
        /\ posts[q].response = ErrorResponse(400, "Invalid email format")
        /\ HasWhiteSpace(posts[q].body.chars)
        /\ emailRegexTest(trim(posts[q].body.chars))
        /\ waitlist # <<>>
        /\ ~existing(trim(posts[q].body.chars))

\* the timers that run in this step
Fired ==
    {timers[i] : i \in {j \in DOMAIN timers :
        \A k \in DOMAIN timers' :
            <<timers'[k].call, timers'[k].step>> # <<timers[j].call, timers[j].step>>}}

\* C39: in a mounted page reasoningSteps changes only by the reset of a
\* handleQuery call and by a timer appending the step whose id is one more
\* than the number of steps present, so the steps appear one at a time in
\* increasing id order without duplicates; isLoading becomes false only when
\* all 14 steps are present; and every timer that fires is one of the latest
\* handleQuery call: no timer of an earlier call fires after a later call has
\* reset reasoningSteps.
C39_StepsInOrder ==
    [][/\ instance' = instance
          => /\ reasoningSteps' # reasoningSteps
                => \/ reasoningSteps' = <<>> /\ calls' = calls + 1
                   \/ /\ Fired # {}
                      /\ Len(reasoningSteps) < Len(allSteps)
                      /\ reasoningSteps' = Append(reasoningSteps,
                            allSteps[Len(reasoningSteps) + 1])
             /\ (isLoading /\ ~isLoading')
                => /\ reasoningSteps = allSteps
                   /\ Len(allSteps) = 14
       /\ \A t \in Fired : t.call = calls]_vars

====
